---- MODULE Spec2Model ----
(***************************************************************************)
(* Model of resultextractor.py: the per-document extraction                *)
(* (extract_data_from_pdf) and the batch loop that aggregates its results. *)
(*                                                                         *)
(* Python strings are sequences of one-character strings.  A table cell is *)
(* a record [isNone, s]: pdfplumber yields either None or a str.           *)
(***************************************************************************)
EXTENDS Integers, Sequences, FiniteSets, TLC

VARIABLES
    mode,            \* the inputs the run draws from: "batch", "row" or "text"
    uploaded_files,  \* names of the uploaded files, in upload order
    pc,              \* position of the script
    idx,             \* 1-based position of the batch loop in uploaded_files
    all_results,     \* the batch loop's all_results list
    extracted_data,  \* extract_data_from_pdf's extracted_data list
    text,            \* current page's text
    usn,             \* current page's usn
    name,            \* current page's name
    row,             \* the row object the innermost loop is bound to
    page_no,         \* pages of the current document iterated so far
    table_no,        \* tables of the current page iterated so far
    row_no,          \* rows of the current table iterated so far
    rows_seen,       \* history: every row the table decoder yielded, with its place
    ed_origin,       \* history: for each record of extracted_data, its index in rows_seen
    ar_origin,       \* history: for each record of all_results, its index in rows_seen
    failed,          \* history: positions of the documents whose extraction raised
    submitted,       \* history: positions passed to extract_data_from_pdf, in call order
    errors,          \* history: file names reported through st.error
    items_read       \* history: pages, tables and rows the decoder yielded so far

vars == <<mode, uploaded_files, pc, idx, all_results, extracted_data, text, usn, name,
          row, page_no, table_no, row_no, rows_seen, ed_origin, ar_origin, failed,
          submitted, errors, items_read>>

----------------------------------------------------------------------------
(* Bounds of the batch universe *)

MaxDocs == 2
MaxItems == 6
MaxGap == 2
MaxCodeLen == 6
MaxMarkLen == 4

----------------------------------------------------------------------------
(* Character classes *)

UPPER == {"A", "B", "C", "D", "E", "F", "G", "H", "I", "J", "K", "L", "M", "N", "O",
          "P", "Q", "R", "S", "T", "U", "V", "W", "X", "Y", "Z"}

LOWER == {"a", "b", "c", "d", "e", "f", "g", "h", "i", "j", "k", "l", "m", "n", "o",
          "p", "q", "r", "s", "t", "u", "v", "w", "x", "y", "z"}

DIGIT == {"0", "1", "2", "3", "4", "5", "6", "7", "8", "9"}

\* what str.strip(), str.split() and the regex \s treat as whitespace
WHITESPACE == {" ", "\t", "\n", "\r", "\f"}

\* [0-9A-Z] of usn_pattern
USN_CLASS == DIGIT \cup UPPER

\* [A-Za-z\s] of name_pattern
NAME_CLASS == UPPER \cup LOWER \cup WHITESPACE

\* [A-Z0-9] of the subject-code pattern
CODE_CLASS == UPPER \cup DIGIT

\* a separator class without the hyphen
USN_SEPARATORS_NO_HYPHEN == {":", ","}

\* [:,-] of usn_pattern
USN_SEPARATORS == {":", ",", "-"}

\* [:,-] of name_pattern
NAME_SEPARATORS == {":", ",", "-"}

USN_LABEL == <<"U", "n", "i", "v", "e", "r", "s", "i", "t", "y", " ", "S", "e", "a", "t",
               " ", "N", "u", "m", "b", "e", "r">>

NAME_LABEL == <<"S", "t", "u", "d", "e", "n", "t", " ", "N", "a", "m", "e">>

Unknown == <<"U", "n", "k", "n", "o", "w", "n">>

----------------------------------------------------------------------------
(* Python string operations *)

\* s.replace('\n', ' ')
replace_newline(s) == [i \in 1..Len(s) |-> IF s[i] = "\n" THEN " " ELSE s[i]]

RECURSIVE lstrip(_)
lstrip(s) == IF s # <<>> /\ Head(s) \in WHITESPACE THEN lstrip(Tail(s)) ELSE s

RECURSIVE rstrip(_)
rstrip(s) ==
    IF s # <<>> /\ s[Len(s)] \in WHITESPACE THEN rstrip(SubSeq(s, 1, Len(s) - 1)) ELSE s

\* s.strip()
strip(s) == rstrip(lstrip(s))

\* ' ' in s
contains_space(s) == \E i \in 1..Len(s) : s[i] = " "

\* s.isdigit()
isdigit(s) == s # <<>> /\ \A i \in 1..Len(s) : s[i] \in DIGIT

\* length of the run of characters of cls that starts at position i of s
RECURSIVE RunLen(_, _, _)
RunLen(s, i, cls) ==
    IF i > Len(s) \/ s[i] \notin cls THEN 0 ELSE 1 + RunLen(s, i + 1, cls)

\* s.split(): the maximal runs of non-whitespace characters, in order
RECURSIVE split_from(_, _)
split_from(s, i) ==
    IF i > Len(s) THEN <<>>
    ELSE IF s[i] \in WHITESPACE THEN split_from(s, i + 1)
    ELSE LET n == CHOOSE k \in 1..(Len(s) - i + 1) :
                      /\ \A j \in i..(i + k - 1) : s[j] \notin WHITESPACE
                      /\ (i + k > Len(s) \/ s[i + k] \in WHITESPACE)
         IN  <<SubSeq(s, i, i + n - 1)>> \o split_from(s, i + n)

split(s) == split_from(s, 1)

----------------------------------------------------------------------------
(* Regular expressions *)

\* the literal lit occurs in s at position i
LiteralAt(s, i, lit) ==
    /\ i + Len(lit) - 1 <= Len(s)
    /\ \A k \in 1..Len(lit) : s[i + k - 1] = lit[k]

\* \s*(cls+) at position p, the \s* having taken b characters: the position where the
\* group starts, or 0; a greedy \s* gives characters back one at a time
RECURSIVE try_space(_, _, _, _)
try_space(s, p, b, cls) ==
    IF RunLen(s, p + b, cls) >= 1 THEN p + b
    ELSE IF b = 0 THEN 0
    ELSE try_space(s, p, b - 1, cls)

\* [seps]?\s*(cls+) at position p: the separator is taken first, then skipped
try_separator(s, p, seps, cls) ==
    LET taken == IF p <= Len(s) /\ s[p] \in seps
                 THEN try_space(s, p + 1, RunLen(s, p + 1, WHITESPACE), cls)
                 ELSE 0
    IN  IF taken # 0 THEN taken
        ELSE try_space(s, p, RunLen(s, p, WHITESPACE), cls)

\* \s*[seps]?\s*(cls+) at position j, the first \s* having taken a characters
RECURSIVE try_pattern(_, _, _, _, _)
try_pattern(s, j, a, seps, cls) ==
    LET g == try_separator(s, j + a, seps, cls)
    IN  IF g # 0 THEN g
        ELSE IF a = 0 THEN 0
        ELSE try_pattern(s, j, a - 1, seps, cls)

NoMatch == [found |-> FALSE, group |-> <<>>]

\* re.search(<label>\s*[seps]?\s*(cls+), s) from position i on: the leftmost position
\* where the pattern matches, with the group the backtracking order finds first
RECURSIVE search_from(_, _, _, _, _)
search_from(s, i, label, seps, cls) ==
    IF i > Len(s) THEN NoMatch
    ELSE LET j == i + Len(label)
             g == IF LiteralAt(s, i, label)
                  THEN try_pattern(s, j, RunLen(s, j, WHITESPACE), seps, cls)
                  ELSE 0
         IN  IF g # 0
             THEN [found |-> TRUE, group |-> SubSeq(s, g, g + RunLen(s, g, cls) - 1)]
             ELSE search_from(s, i + 1, label, seps, cls)

re_search(s, label, seps, cls) == search_from(s, 1, label, seps, cls)

\* a resolution that keeps the previous page's usn when the label is not found
resolve_usn_carry(t) ==
    LET usn_match == re_search(t, USN_LABEL, USN_SEPARATORS, USN_CLASS)
    IN  IF usn_match.found THEN strip(usn_match.group)
        ELSE IF usn # <<>> THEN usn ELSE Unknown

\* usn = usn_match.group(1).strip() if usn_match else "Unknown"
resolve_usn(t) ==
    LET usn_match == re_search(t, USN_LABEL, USN_SEPARATORS, USN_CLASS)
    IN  IF usn_match.found THEN strip(usn_match.group) ELSE Unknown

\* name = name_match.group(1).strip() if name_match else "Unknown"
resolve_name(t) ==
    LET name_match == re_search(t, NAME_LABEL, NAME_SEPARATORS, NAME_CLASS)
    IN  IF name_match.found THEN strip(name_match.group) ELSE Unknown

\* re.match(r'^[A-Z0-9]{5,}', s)
code_match(s) == RunLen(s, 1, CODE_CLASS) >= 5

----------------------------------------------------------------------------
(* Row handling of extract_data_from_pdf *)

None == [isNone |-> TRUE, s |-> <<>>]

Cell(s) == [isNone |-> FALSE, s |-> s]

\* `if item`: None and the empty string are falsy
truthy(item) == ~item.isNone /\ item.s # <<>>

\* the cleaning without the strip()
clean_no_strip(r) ==
    [i \in 1..Len(r) |-> IF truthy(r[i]) THEN replace_newline(r[i].s) ELSE <<>>]

\* [str(item).replace('\n', ' ').strip() if item else '' for item in row]
clean(r) ==
    [i \in 1..Len(r) |-> IF truthy(r[i]) THEN strip(replace_newline(r[i].s)) ELSE <<>>]

\* the row test with the length comparison off by one
qualifies_strict(clean_row) == Len(clean_row) > 6 /\ code_match(clean_row[1])

\* len(clean_row) >= 6 and re.match(r'^[A-Z0-9]{5,}', clean_row[0])
qualifies(clean_row) == Len(clean_row) >= 6 /\ code_match(clean_row[1])

\* if not external and ' ' in internal
merge_guard(internal, external) == external = <<>> /\ contains_space(internal)

\* len(parts) == 2 and parts[0].isdigit() and parts[1].isdigit()
two_numbers(parts) == Len(parts) = 2 /\ isdigit(parts[1]) /\ isdigit(parts[2])

\* the (internal, external) pair after the merged-marks fix
repair_marks(internal, external) ==
    IF merge_guard(internal, external) /\ two_numbers(split(internal))
    THEN <<split(internal)[1], split(internal)[2]>>
    ELSE <<internal, external>>

\* the name of the first upload, whichever file is being extracted
source_file_name_first(files, i) == files[1]

\* uploaded_file.name of the file being extracted
source_file_name(files, i) == files[i]

\* the dict appended to extracted_data
make_record(clean_row, u, n, file) ==
    LET marks == repair_marks(clean_row[3], clean_row[4])
    IN  [USN |-> u,
         StudentName |-> n,
         SubjectCode |-> clean_row[1],
         SubjectName |-> clean_row[2],
         Internal |-> marks[1],
         External |-> marks[2],
         Total |-> clean_row[5],
         Result |-> clean_row[6],
         SourceFile |-> file]

\* an except branch that returns what was extracted before the failure
except_result_partial(data) == data

\* the value the except branch returns
except_result(data) == <<>>

\* the new records put in front of the old ones
extend_front(results, data) == data \o results

\* an assignment in place of the extend
extend_assign(results, data) == data

\* all_results.extend(data)
extend(results, data) == results \o data

----------------------------------------------------------------------------
(* Inputs: what the uploader and the PDF decoder may hand to the script *)

\* every sequence over alphabet of length at most n
Strings(alphabet, n) == UNION {[1..k -> alphabet] : k \in 0..n}

\* the names of the uploaded files, in upload order
FileNames == <<"a.pdf", "b.pdf", "c.pdf", "d.pdf">>

S_BMATE201 == <<"B", "M", "A", "T", "E", "2", "0", "1">>
S_Math == <<"M", "a", "t", "h">>
S_25 == <<"2", "5">>
S_40 == <<"4", "0">>
S_65 == <<"6", "5">>
S_P == <<"P">>
S_25_40 == <<"2", "5", " ", "4", "0">>
S_ABC123DE == <<"A", "B", "C", "1", "2", "3", "D", "E">>

\* a result row as the sample documents print it
PlainRow == <<Cell(S_BMATE201), Cell(S_Math), Cell(S_25), Cell(S_40), Cell(S_65), Cell(S_P)>>

\* two mark columns collapsed into one cell, and a seventh cell
MergedRow ==
    <<Cell(<<"B", "C", "H", "E", "S", "2", "0", "2">>), Cell(<<"A", "p", "p", "l", "i", "e", "d", "\n", "C", "h", "e", "m", "i", "s", "t", "r", "y">>), Cell(S_25_40), None, Cell(<<" ", "6", "5">>),
      Cell(S_P), Cell(<<"2", "0", "2", "4">>)>>

\* the table's header line
HeaderRow ==
    <<Cell(<<"S", "u", "b", "j", "e", "c", "t", " ", "C", "o", "d", "e">>), Cell(<<"S", "u", "b", "j", "e", "c", "t", " ", "N", "a", "m", "e">>), Cell(<<"I", "n", "t", "e", "r", "n", "a", "l">>), Cell(<<"E", "x", "t", "e", "r", "n", "a", "l">>),
      Cell(<<"T", "o", "t", "a", "l">>), Cell(<<"R", "e", "s", "u", "l", "t">>)>>

\* a row with a subject code and only five cells
ShortRow == <<Cell(S_BMATE201), Cell(S_Math), Cell(S_25), Cell(S_40), Cell(S_65)>>

BatchRows == {PlainRow, HeaderRow}

\* a page that prints both identity fields
LabelledText == <<"U", "n", "i", "v", "e", "r", "s", "i", "t", "y", " ", "S", "e", "a", "t", " ", "N", "u", "m", "b", "e", "r", " ", ":", " ", "1", "A", "B", "2", "1", "\n", "S", "t", "u", "d", "e", "n", "t", " ", "N", "a", "m", "e", " ", ":", " ", "A", "s", "h", "a", " ", "R", "a", "o", "\n">>

\* a page that prints neither
PlainText == <<"S", "e", "m", "e", "s", "t", "e", "r", " ", ":", " ", "2">>

\* a page that prints only the USN, with the hyphen separator
UsnOnlyText == <<"U", "n", "i", "v", "e", "r", "s", "i", "t", "y", " ", "S", "e", "a", "t", " ", "N", "u", "m", "b", "e", "r", " ", "-", " ", "A", "B", "C", "1", "2", "3", "D", "E">>

BatchTexts == {LabelledText, PlainText}

CodeAlphabet == {"B", "a", " "}

MarkAlphabet == {"2", " ", "\t", "x"}

GapAlphabet == {" ", ":", ",", "-", "\n"}

\* rows whose first cell ranges over every short string
CodeRows ==
    {<<Cell(c), Cell(S_Math), Cell(S_25), Cell(S_40), Cell(S_65), Cell(S_P)>> :
        c \in Strings(CodeAlphabet, MaxCodeLen)}

ExternalCells == {None, Cell(<<>>), Cell(<<" ">>), Cell(S_40)}

\* rows whose internal-mark cell ranges over every short string
MarkRows ==
    {<<Cell(S_BMATE201), Cell(S_Math), Cell(i), e, Cell(S_65), Cell(S_P)>> :
        i \in Strings(MarkAlphabet, MaxMarkLen), e \in ExternalCells}

CuratedRows ==
    {PlainRow, MergedRow, HeaderRow, ShortRow,
     <<Cell(S_BMATE201), Cell(S_Math), Cell(S_25_40), Cell(<<>>), Cell(S_65), Cell(S_P),
       Cell(<<"x">>)>>,
     <<Cell(<<"2", "5", " ", "A">>), Cell(<<"X">>), Cell(<<>>), Cell(<<>>), Cell(<<>>), Cell(<<>>)>>,
     <<Cell(S_BMATE201), Cell(S_Math), Cell(<<"2", "5", " ", "4", "0", " ", "1", "0">>), Cell(<<>>), Cell(S_65), Cell(S_P)>>,
     <<Cell(S_BMATE201), Cell(S_Math), Cell(<<"2", "5", "\n", "4", "0">>), None, Cell(S_65), Cell(S_P)>>,
     <<Cell(S_BMATE201), Cell(S_Math), Cell(<<"2", "5", " ", "A", "B">>), None, Cell(<<"A", "B">>), Cell(<<"F">>)>>,
     <<Cell(<<"\n", "B", "M", "A", "T", "E", "2", "0", "1", " ">>), None, Cell(<<" ", "2", "5", " ">>), Cell(<<"\t", "4", "0", "\n">>), Cell(<<"6", "\n", "5">>), None, None>>,
     <<None, Cell(S_Math), Cell(S_25), Cell(S_40), Cell(S_65), Cell(S_P)>>,
     <<Cell(<<"B", "M", "\n", "A", "T", "E", "2", "0", "1">>), Cell(S_Math), Cell(S_25), Cell(S_40), Cell(S_65), Cell(S_P)>>,
     <<Cell(<<"B", "M", "A", "T", "E", "-", "2", "0", "1">>), Cell(S_Math), Cell(S_25_40), Cell(<<>>), Cell(S_65), Cell(S_P),
       Cell(S_25), Cell(S_40)>>,
     <<>>}

RichRows == CodeRows \cup MarkRows \cup CuratedRows

\* texts <before><label><gap><value><after>, the gap over every short string
BuiltTexts ==
    {before \o label \o gap \o value \o after :
        before \in {<<>>, <<"R", "e", "s", "u", "l", "t", " ", "S", "h", "e", "e", "t", "\n">>},
        label \in {USN_LABEL, <<"U", "S", "N">>, <<"u", "n", "i", "v", "e", "r", "s", "i", "t", "y", " ", "s", "e", "a", "t", " ", "n", "u", "m", "b", "e", "r">>},
        gap \in Strings(GapAlphabet, MaxGap),
        value \in {S_ABC123DE, <<"1", "a", "b">>, <<>>},
        after \in {<<>>, <<"\n", "S", "t", "u", "d", "e", "n", "t", " ", "N", "a", "m", "e", " ", " ", ":">>}}

CuratedTexts ==
    {LabelledText, PlainText, UsnOnlyText, <<>>,
     <<"U", "S", "N", ":", "A", "B", "C", "1", "2", "3", "D", "E">>, <<"U", "S", "N", " ", "-", " ", "A", "B", "C", "1", "2", "3", "D", "E">>,
     <<"U", "n", "i", "v", "e", "r", "s", "i", "t", "y", " ", "S", "e", "a", "t", " ", "N", "u", "m", "b", "e", "r", ":", "A", "B", "C", "1", "2", "3", "D", "E">>,
     <<"U", "n", "i", "v", "e", "r", "s", "i", "t", "y", " ", "S", "e", "a", "t", " ", "N", "u", "m", "b", "e", "r", " ", ",", " ", "A", "B", "C", "1", "2", "3", "D", "E", " ", "S", "t", "u", "d", "e", "n", "t", " ", "N", "a", "m", "e", "-", "A", "s", "h", "a", " ", "R", "a", "o", " ", "2">>,
     <<"U", "n", "i", "v", "e", "r", "s", "i", "t", "y", " ", "S", "e", "a", "t", " ", "N", "u", "m", "b", "e", "r", " ", ":", ":", " ", "1", "A", "B", " ", "U", "n", "i", "v", "e", "r", "s", "i", "t", "y", " ", "S", "e", "a", "t", " ", "N", "u", "m", "b", "e", "r", "\t", "2", "C", "D">>,
     <<"S", "t", "u", "d", "e", "n", "t", " ", "N", "a", "m", "e", ":", " ", "A", "s", "h", "a", "\n", "U", "n", "i", "v", "e", "r", "s", "i", "t", "y", " ", "S", "e", "a", "t", " ", "N", "u", "m", "b", "e", "r", ":", " ", "1", "A", "B", "2", "1", "C", "S", "0", "0", "1">>,
     <<"S", "t", "u", "d", "e", "n", "t", " ", "N", "a", "m", "e", " ", "4", "2">>}

RichTexts == BuiltTexts \cup CuratedTexts

\* the rows the table decoder may yield
Rows(m) == IF m = "batch" THEN BatchRows ELSE IF m = "row" THEN RichRows ELSE {PlainRow, HeaderRow}

\* the texts the page decoder may yield
Texts(m) == IF m = "batch" THEN BatchTexts ELSE IF m = "text" THEN RichTexts ELSE {LabelledText}

\* how many pages, tables and rows the decoder yields in one run, at most
ItemLimit(m) == IF m = "batch" THEN MaxItems ELSE 3

\* how many pages a document, tables a page and rows a table have, at most
PartLimit(m) == IF m = "batch" THEN MaxItems ELSE 1

----------------------------------------------------------------------------
(* The script *)

Init ==
    /\ mode = "batch"
    /\ uploaded_files \in {SubSeq(FileNames, 1, n) : n \in 1..MaxDocs}
    /\ pc = "button"
    /\ idx = 0
    /\ all_results = <<>>
    /\ extracted_data = <<>>
    /\ text = <<>>
    /\ usn = <<>>
    /\ name = <<>>
    /\ row = <<>>
    /\ page_no = 0
    /\ table_no = 0
    /\ row_no = 0
    /\ rows_seen = <<>>
    /\ ed_origin = <<>>
    /\ ar_origin = <<>>
    /\ failed = {}
    /\ submitted = <<>>
    /\ errors = <<>>
    /\ items_read = 0

\* a single document, its one row or its page text drawn from the rich universes
PureInit ==
    /\ mode \in {"row", "text"}
    /\ uploaded_files = SubSeq(FileNames, 1, 1)
    /\ pc = "button"
    /\ idx = 0
    /\ all_results = <<>>
    /\ extracted_data = <<>>
    /\ text = <<>>
    /\ usn = <<>>
    /\ name = <<>>
    /\ row = <<>>
    /\ page_no = 0
    /\ table_no = 0
    /\ row_no = 0
    /\ rows_seen = <<>>
    /\ ed_origin = <<>>
    /\ ar_origin = <<>>
    /\ failed = {}
    /\ submitted = <<>>
    /\ errors = <<>>
    /\ items_read = 0

\* extract_data_from_pdf's frame: its locals exist from the call to the return
LocalsGone ==
    /\ extracted_data' = <<>>
    /\ ed_origin' = <<>>
    /\ text' = <<>>
    /\ usn' = <<>>
    /\ name' = <<>>
    /\ row' = <<>>
    /\ page_no' = 0
    /\ table_no' = 0
    /\ row_no' = 0

\* if st.button(...): all_results = []
ProcessButton ==
    /\ pc = "button"
    /\ all_results' = <<>>
    /\ ar_origin' = <<>>
    /\ idx' = 1
    /\ pc' = "for_file"
    /\ UNCHANGED <<mode, uploaded_files, extracted_data, text, usn, name, row, page_no,
                   table_no, row_no, rows_seen, ed_origin, failed, submitted, errors, items_read>>

\* for idx, pdf_file in enumerate(uploaded_files): data = extract_data_from_pdf(pdf_file)
\* enters the function: extracted_data = []
SubmitFile ==
    /\ pc = "for_file"
    /\ idx <= Len(uploaded_files)
    /\ submitted' = Append(submitted, idx)
    /\ LocalsGone
    /\ pc' = "open"
    /\ UNCHANGED <<mode, uploaded_files, idx, all_results, rows_seen, ar_origin, failed,
                   errors, items_read>>

\* with pdfplumber.open(uploaded_file) as pdf: the file opens
OpenPdf ==
    /\ pc = "open"
    /\ pc' = "for_page"
    /\ UNCHANGED <<mode, uploaded_files, idx, all_results, extracted_data, text, usn, name,
                   row, page_no, table_no, row_no, rows_seen, ed_origin, ar_origin, failed,
                   submitted, errors, items_read>>

\* pdfplumber.open raises
OpenFails ==
    /\ pc = "open"
    /\ failed' = failed \cup {idx}
    /\ pc' = "except"
    /\ UNCHANGED <<mode, uploaded_files, idx, all_results, extracted_data, text, usn, name,
                   row, page_no, table_no, row_no, rows_seen, ed_origin, ar_origin,
                   submitted, errors, items_read>>

\* for page in pdf.pages: text, the two searches, tables = page.extract_tables()
NextPage ==
    /\ pc = "for_page"
    /\ items_read < ItemLimit(mode)
    /\ page_no < PartLimit(mode)
    /\ \E t \in Texts(mode) :
          /\ text' = t
          /\ usn' = resolve_usn(t)
          /\ name' = resolve_name(t)
    /\ page_no' = page_no + 1
    /\ items_read' = items_read + 1
    /\ table_no' = 0
    /\ pc' = "for_table"
    /\ UNCHANGED <<mode, uploaded_files, idx, all_results, extracted_data, row, row_no,
                   rows_seen, ed_origin, ar_origin, failed, submitted, errors>>

\* the page raises before its text is bound: in extract_text, or in re.search when
\* extract_text returned None
PageFails ==
    /\ pc = "for_page"
    /\ failed' = failed \cup {idx}
    /\ pc' = "except"
    /\ UNCHANGED <<mode, uploaded_files, idx, all_results, extracted_data, text, usn, name,
                   row, page_no, table_no, row_no, rows_seen, ed_origin, ar_origin,
                   submitted, errors, items_read>>

\* the page's text and identity are bound, and page.extract_tables() raises
TablesFail ==
    /\ pc = "for_page"
    /\ items_read < ItemLimit(mode)
    /\ page_no < PartLimit(mode)
    /\ \E t \in Texts(mode) :
          /\ text' = t
          /\ usn' = resolve_usn(t)
          /\ name' = resolve_name(t)
    /\ page_no' = page_no + 1
    /\ items_read' = items_read + 1
    /\ failed' = failed \cup {idx}
    /\ pc' = "except"
    /\ UNCHANGED <<mode, uploaded_files, idx, all_results, extracted_data, row, table_no,
                   row_no, rows_seen, ed_origin, ar_origin, submitted, errors>>

\* pdf.pages is exhausted: return extracted_data
EndPages ==
    /\ pc = "for_page"
    /\ pc' = "return"
    /\ UNCHANGED <<mode, uploaded_files, idx, all_results, extracted_data, text, usn, name,
                   row, page_no, table_no, row_no, rows_seen, ed_origin, ar_origin, failed,
                   submitted, errors, items_read>>

\* for table in tables
NextTable ==
    /\ pc = "for_table"
    /\ items_read < ItemLimit(mode)
    /\ table_no < PartLimit(mode)
    /\ table_no' = table_no + 1
    /\ items_read' = items_read + 1
    /\ row_no' = 0
    /\ pc' = "for_row"
    /\ UNCHANGED <<mode, uploaded_files, idx, all_results, extracted_data, text, usn, name,
                   row, page_no, rows_seen, ed_origin, ar_origin, failed, submitted,
                   errors>>

\* tables is exhausted
EndTables ==
    /\ pc = "for_table"
    /\ pc' = "for_page"
    /\ UNCHANGED <<mode, uploaded_files, idx, all_results, extracted_data, text, usn, name,
                   row, page_no, table_no, row_no, rows_seen, ed_origin, ar_origin, failed,
                   submitted, errors, items_read>>

\* for row in table: clean the row, test it, fix merged marks, append the record
NextRow ==
    /\ pc = "for_row"
    /\ items_read < ItemLimit(mode)
    /\ row_no < PartLimit(mode)
    /\ \E r \in Rows(mode) :
          LET clean_row == clean(r)
              k == Len(rows_seen) + 1
          IN  /\ row' = r
              /\ rows_seen' = Append(rows_seen,
                                 [doc |-> idx, page |-> page_no, table |-> table_no,
                                  row |-> row_no + 1, cells |-> r, text |-> text])
              /\ IF qualifies(clean_row)
                 THEN /\ extracted_data' =
                            Append(extracted_data,
                                   make_record(clean_row, usn, name,
                                               source_file_name(uploaded_files, idx)))
                      /\ ed_origin' = Append(ed_origin, k)
                 ELSE UNCHANGED <<extracted_data, ed_origin>>
    /\ row_no' = row_no + 1
    /\ items_read' = items_read + 1
    /\ UNCHANGED <<mode, uploaded_files, pc, idx, all_results, text, usn, name, page_no,
                   table_no, ar_origin, failed, submitted, errors>>

\* table is exhausted
EndRows ==
    /\ pc = "for_row"
    /\ pc' = "for_table"
    /\ UNCHANGED <<mode, uploaded_files, idx, all_results, extracted_data, text, usn, name,
                   row, page_no, table_no, row_no, rows_seen, ed_origin, ar_origin, failed,
                   submitted, errors, items_read>>

\* return extracted_data; all_results.extend(data); the loop moves on
ReturnData ==
    /\ pc = "return"
    /\ all_results' = extend(all_results, extracted_data)
    /\ ar_origin' = extend(ar_origin, ed_origin)
    /\ idx' = idx + 1
    /\ pc' = "for_file"
    /\ LocalsGone
    /\ UNCHANGED <<mode, uploaded_files, rows_seen, failed, submitted, errors, items_read>>

\* an except branch that lets the exception out of extract_data_from_pdf: the script stops
HandleExceptionReraise ==
    /\ pc = "except"
    /\ pc' = "crashed"
    /\ UNCHANGED <<mode, uploaded_files, idx, all_results, extracted_data, text, usn, name,
                   row, page_no, table_no, row_no, rows_seen, ed_origin, ar_origin, failed,
                   submitted, errors, items_read>>

\* except Exception as e: st.error(...); return []; all_results.extend(data)
HandleException ==
    /\ pc = "except"
    /\ errors' = Append(errors, uploaded_files[idx])
    /\ all_results' = extend(all_results, except_result(extracted_data))
    /\ ar_origin' = extend(ar_origin, except_result(ed_origin))
    /\ idx' = idx + 1
    /\ pc' = "for_file"
    /\ LocalsGone
    /\ UNCHANGED <<mode, uploaded_files, rows_seen, failed, submitted, items_read>>

\* the loop is exhausted: status_text.text("Processing Complete!")
Complete ==
    /\ pc = "for_file"
    /\ idx > Len(uploaded_files)
    /\ pc' = "done"
    /\ UNCHANGED <<mode, uploaded_files, idx, all_results, extracted_data, text, usn, name,
                   row, page_no, table_no, row_no, rows_seen, ed_origin, ar_origin, failed,
                   submitted, errors, items_read>>

Next ==
    \/ ProcessButton
    \/ SubmitFile
    \/ OpenPdf
    \/ OpenFails
    \/ NextPage
    \/ PageFails
    \/ TablesFail
    \/ EndPages
    \/ NextTable
    \/ EndTables
    \/ NextRow
    \/ EndRows
    \/ ReturnData
    \/ HandleException
    \/ Complete

Spec == Init /\ [][Next]_vars

\* the script is one sequential thread: it keeps running until the loop is exhausted
FairSpec == Init /\ [][Next]_vars /\ WF_vars(Next)

PureSpec == PureInit /\ [][Next]_vars

----------------------------------------------------------------------------
(* The statements of the specification, in their own terms *)

\* cell normalization: a null cell is the empty string, newlines become spaces, leading
\* and trailing whitespace is trimmed
Normalized(cell) ==
    IF cell.isNone THEN <<>>
    ELSE LET spaced == [i \in 1..Len(cell.s) |-> IF cell.s[i] = "\n" THEN " " ELSE cell.s[i]]
             inked == {i \in 1..Len(spaced) : spaced[i] \notin WHITESPACE}
         IN  IF inked = {} THEN <<>>
             ELSE SubSeq(spaced, CHOOSE i \in inked : \A j \in inked : i <= j,
                                 CHOOSE i \in inked : \A j \in inked : i >= j)

\* the row-qualification predicate: at least 6 cells, and the first cell starts with 5
\* characters from uppercase letters and digits
Qualifying(cells) ==
    /\ Len(cells) >= 6
    /\ LET first == Normalized(cells[1])
       IN  /\ Len(first) >= 5
           /\ \A i \in 1..5 : first[i] \in UPPER \cup DIGIT

\* the rows of the dataset's records: record i of all_results came from row RowOf(i)
RowOf(i) == rows_seen[ar_origin[i]]

\* the records of all_results that row k produced
RecordsOf(k) == {i \in 1..Len(all_results) : ar_origin[i] = k}

\* the place of a row: document, page, table, row
Before(r1, r2) ==
    \/ r1.doc < r2.doc
    \/ r1.doc = r2.doc /\ r1.page < r2.page
    \/ r1.doc = r2.doc /\ r1.page = r2.page /\ r1.table < r2.table
    \/ r1.doc = r2.doc /\ r1.page = r2.page /\ r1.table = r2.table /\ r1.row < r2.row

IsPrefix(a, b) == Len(a) <= Len(b) /\ SubSeq(b, 1, Len(a)) = a

Bookkeeping ==
    /\ Len(ar_origin) = Len(all_results)
    /\ Len(ed_origin) = Len(extracted_data)
    /\ \A i \in 1..Len(ar_origin) : ar_origin[i] \in 1..Len(rows_seen)
    /\ \A i \in 1..Len(ed_origin) : ed_origin[i] \in 1..Len(rows_seen)

\* C1 as stated: after any batch, a row is in the dataset iff it qualifies, and each
\* qualifying row has exactly one record.
C1_EveryQualifyingRow ==
    pc = "done" =>
        /\ Bookkeeping
        /\ \A k \in 1..Len(rows_seen) :
              IF Qualifying(rows_seen[k].cells)
              THEN Cardinality(RecordsOf(k)) = 1
              ELSE RecordsOf(k) = {}

\* C1 as amended: after any batch, a row of a document whose extraction did not fail is
\* in the dataset iff it qualifies, with exactly one record; a row of a document whose
\* extraction failed has no record, qualifying or not.
C1_QualifyingRowsOfDecodedDocuments ==
    pc = "done" =>
        /\ Bookkeeping
        /\ \A k \in 1..Len(rows_seen) :
              IF rows_seen[k].doc \notin failed /\ Qualifying(rows_seen[k].cells)
              THEN Cardinality(RecordsOf(k)) = 1
              ELSE RecordsOf(k) = {}

\* C1 witness: a batch is done in which a qualifying row of a decoded document has its
\* record and its first cell needed the normalization to qualify.
C1_Witness ==
    /\ pc = "done"
    /\ \E k \in 1..Len(rows_seen) :
          /\ rows_seen[k].doc \notin failed
          /\ Qualifying(rows_seen[k].cells)
          /\ rows_seen[k].cells[1].s # Normalized(rows_seen[k].cells[1])
          /\ Cardinality(RecordsOf(k)) = 1

\* the whitespace-separated tokens of a string, as positions: a token is a maximal run
\* of non-whitespace characters
TokenSpans(str) ==
    {sp \in (1..Len(str)) \X (1..Len(str)) :
        /\ sp[1] <= sp[2]
        /\ \A i \in sp[1]..sp[2] : str[i] \notin WHITESPACE
        /\ (sp[1] = 1 \/ str[sp[1] - 1] \in WHITESPACE)
        /\ (sp[2] = Len(str) \/ str[sp[2] + 1] \in WHITESPACE)}

AllDigits(str, sp) == \A i \in sp[1]..sp[2] : str[i] \in DIGIT

\* the merge-repair rule applied to normalized cells 2 and 3, with the test on the
\* internal mark given as a set of characters: <<internalMark, externalMark>>
Repaired(cells, separators) ==
    LET internal == Normalized(cells[3])
        external == Normalized(cells[4])
        spans == TokenSpans(internal)
    IN  IF /\ external = <<>>
           /\ \E i \in 1..Len(internal) : internal[i] \in separators
           /\ Cardinality(spans) = 2
           /\ \A sp \in spans : AllDigits(internal, sp)
        THEN LET first == CHOOSE sp \in spans : \A o \in spans : sp[1] <= o[1]
                 second == CHOOSE sp \in spans : \A o \in spans : sp[1] >= o[1]
             IN  <<SubSeq(internal, first[1], first[2]),
                   SubSeq(internal, second[1], second[2])>>
        ELSE <<internal, external>>

\* C2: for every qualifying row, the record's marks are the repaired pair when the
\* external cell is empty and the internal cell contains a whitespace character and
\* splits into exactly two all-digit tokens, and the normalized cells 2 and 3 verbatim
\* in every other case.
C2_MergeRepair ==
    \A i \in 1..Len(extracted_data) :
        <<extracted_data[i].Internal, extracted_data[i].External>>
            = Repaired(rows_seen[ed_origin[i]].cells, WHITESPACE)

\* The same rule with the test the code makes, the space character alone (C2's
\* divergence is confined to the other whitespace characters).
MergeRepairOnSpace ==
    \A i \in 1..Len(extracted_data) :
        <<extracted_data[i].Internal, extracted_data[i].External>>
            = Repaired(rows_seen[ed_origin[i]].cells, {" "})

\* the number of qualifying rows the decoder yielded for document d
QualifyingRowsOf(d) ==
    {k \in 1..Len(rows_seen) : rows_seen[k].doc = d /\ Qualifying(rows_seen[k].cells)}

\* the records of all_results that document d contributed
ContributionOf(d) == {i \in 1..Len(all_results) : RowOf(i).doc = d}

\* C3: a document whose extraction failed at any point contributes zero records, and
\* every other finished document contributes one record per qualifying row.
C3_FailedDocumentContributesNothing ==
    /\ Bookkeeping
    /\ \A d \in failed : ContributionOf(d) = {}
    /\ \A d \in 1..Len(uploaded_files) :
          (d \notin failed /\ (d < idx \/ pc = "done")) =>
              Cardinality(ContributionOf(d)) = Cardinality(QualifyingRowsOf(d))

\* C3 witness: the batch is done, a document failed after a page of it had yielded a
\* qualifying row, and another document's record is in the dataset.
C3_Witness ==
    /\ pc = "done"
    /\ \E d \in failed : QualifyingRowsOf(d) # {}
    /\ \E d \in 1..Len(uploaded_files) : d \notin failed /\ ContributionOf(d) # {}

\* the documents are submitted to the extraction once each, in upload order
SubmittedInOrder ==
    /\ Len(submitted) <= Len(uploaded_files)
    /\ \A i \in 1..Len(submitted) : submitted[i] = i

\* C4: a failure never aborts the batch: no exception leaves the extraction step, the
\* documents are submitted once each in upload order whatever fails, and the loop
\* eventually completes with every document submitted.
C4_FailureNeverAbortsBatch ==
    /\ [](pc # "crashed" /\ SubmittedInOrder)
    /\ <>[](pc = "done" /\ Len(submitted) = Len(uploaded_files))

\* C4 witness: the batch is done and a document was submitted after one that failed.
C4_Witness ==
    /\ pc = "done"
    /\ \E d \in failed : \E i \in 1..Len(submitted) : submitted[i] > d

\* C5: the final dataset lists, in upload order and then in page, table and row order,
\* one record per qualifying row of every document's returned sequence (empty for a
\* document whose extraction failed), and nothing is reordered or dropped as a
\* duplicate.
C5_OrderedConcatenation ==
    pc = "done" =>
        /\ Bookkeeping
        /\ \A i, j \in 1..Len(all_results) : i < j => Before(RowOf(i), RowOf(j))
        /\ {ar_origin[i] : i \in 1..Len(ar_origin)}
              = {k \in 1..Len(rows_seen) :
                    rows_seen[k].doc \notin failed /\ Qualifying(rows_seen[k].cells)}
        /\ \A i \in 1..Len(all_results) :
              all_results[i].SubjectCode = Normalized(RowOf(i).cells[1])

\* C5 witness: the batch is done and two identical rows gave two identical records.
C5_Witness ==
    /\ pc = "done"
    /\ \E i, j \in 1..Len(all_results) :
          /\ i < j
          /\ RowOf(i).cells = RowOf(j).cells
          /\ all_results[i] = all_results[j]

\* C6: every record's sourceFile is the name of the document whose page held the
\* record's row, and of no other document of the batch.
C6_SourceFileIsOwnDocument ==
    /\ \A i \in 1..Len(all_results) :
          /\ all_results[i].SourceFile = uploaded_files[RowOf(i).doc]
          /\ \A d \in 1..Len(uploaded_files) :
                d # RowOf(i).doc => all_results[i].SourceFile # uploaded_files[d]
    /\ \A i \in 1..Len(extracted_data) :
          /\ rows_seen[ed_origin[i]].doc = idx
          /\ extracted_data[i].SourceFile = uploaded_files[idx]

\* C6 witness: the dataset holds a record of the second document, under its name, after
\* a record of the first.
C6_Witness ==
    \E i, j \in 1..Len(all_results) :
        /\ RowOf(i).doc = 1
        /\ RowOf(j).doc = 2
        /\ all_results[j].SourceFile = FileNames[2]

\* the label occurs in the text
HasLabel(t, label) == \E i \in 1..Len(t) : LiteralAt(t, i, label)

\* the identity a page's text gives, whatever was resolved before
PageIdentity(t) ==
    LET u == re_search(t, USN_LABEL, {":", ",", "-"}, DIGIT \cup UPPER)
        n == re_search(t, NAME_LABEL, {":", ",", "-"}, UPPER \cup LOWER \cup WHITESPACE)
    IN  [usn |-> IF u.found THEN strip(u.group) ELSE Unknown,
         name |-> IF n.found THEN strip(n.group) ELSE Unknown]

\* PageIdentity, tabulated over the texts a page can have
IdentityTable == [t \in BatchTexts \cup RichTexts |-> PageIdentity(t)]

\* the record carries the identity of the page text t
CarriesIdentityOf(rec, t) ==
    LET id == IdentityTable[t]
    IN  /\ rec.USN = id.usn
        /\ rec.StudentName = id.name
        /\ ~HasLabel(t, USN_LABEL) => rec.USN = Unknown
        /\ ~HasLabel(t, NAME_LABEL) => rec.StudentName = Unknown

\* C7: every record carries the USN and Name resolved from the text of the page that
\* holds its row, and a field whose label is absent from that text is "Unknown",
\* whatever earlier pages or documents supplied.
C7_IdentityPerPage ==
    /\ \A i \in 1..Len(all_results) : CarriesIdentityOf(all_results[i], RowOf(i).text)
    /\ \A i \in 1..Len(extracted_data) :
          CarriesIdentityOf(extracted_data[i], rows_seen[ed_origin[i]].text)

\* C7 witness: a record with both fields "Unknown" from a page without labels follows,
\* in the same document, a record whose page supplied both.
C7_Witness ==
    \E i, j \in 1..Len(all_results) :
        /\ i < j
        /\ RowOf(i).doc = RowOf(j).doc
        /\ RowOf(i).page < RowOf(j).page
        /\ all_results[i].USN # Unknown
        /\ all_results[i].StudentName # Unknown
        /\ ~HasLabel(RowOf(j).text, USN_LABEL)
        /\ ~HasLabel(RowOf(j).text, NAME_LABEL)
        /\ all_results[j].USN = Unknown
        /\ all_results[j].StudentName = Unknown

\* the script is inside a page: text and usn are the page's
InPage == pc \in {"for_table", "for_row"}

AllIn(t, from, to, cls) == \A i \in from..to : i <= Len(t) /\ t[i] \in cls

\* the maximal non-empty runs of uppercase letters and digits that start at position g
RunsAt(t, g) ==
    {SubSeq(t, g, h) :
        h \in {e \in g..Len(t) :
                 /\ AllIn(t, g, e, UPPER \cup DIGIT)
                 /\ (e = Len(t) \/ t[e + 1] \notin UPPER \cup DIGIT)}}

\* the values that follow label at position i of t: after the label come whitespace, at
\* most one separator (colon, comma or hyphen) and whitespace again, and then the value,
\* a maximal non-empty run of uppercase letters and digits
ValuesAfter(t, i, label) ==
    IF ~LiteralAt(t, i, label) THEN {}
    ELSE LET j == i + Len(label)
             gaps == {x \in (0..Len(t)) \X {0, 1} :
                        /\ AllIn(t, j, j + x[1] - 1, WHITESPACE)
                        /\ x[2] = 1 => AllIn(t, j + x[1], j + x[1], {":", ",", "-"})}
             starts == UNION {{j + x[1] + x[2] + b2 :
                                 b2 \in {y \in 0..Len(t) :
                                           AllIn(t, j + x[1] + x[2],
                                                 j + x[1] + x[2] + y - 1, WHITESPACE)}} :
                              x \in gaps}
         IN  UNION {RunsAt(t, g) : g \in starts}

\* the first place of t where label is followed by a value
FirstLabelled(t, label) ==
    {i \in 1..Len(t) :
        /\ ValuesAfter(t, i, label) # {}
        /\ \A k \in 1..(i - 1) : ValuesAfter(t, k, label) = {}}

\* the general part of C8 with a given label: the USN is the value that follows the
\* first label that has one, whichever separator variant stands between them
ResolvesValueAfter(label) ==
    InPage => \A i \in FirstLabelled(text, label) : ValuesAfter(text, i, label) = {usn}

\* C8 as stated: the page texts "USN:ABC123DE" and "USN - ABC123DE" resolve to
\* "ABC123DE", and a label followed by any separator variant resolves to its value.
C8_UsnAbbreviationResolves ==
    /\ (InPage /\ text \in {<<"U", "S", "N", ":", "A", "B", "C", "1", "2", "3", "D", "E">>,
                           <<"U", "S", "N", " ", "-", " ", "A", "B", "C", "1", "2", "3", "D", "E">>})
          => usn = S_ABC123DE
    /\ ResolvesValueAfter(USN_LABEL)

\* C8 as amended: with the label spelled out, "University Seat Number:ABC123DE" and
\* "University Seat Number - ABC123DE" resolve to "ABC123DE", and the first
\* "University Seat Number" that is followed by an optional single separator with
\* optional whitespace around it and a value resolves to that value.
C8_SeparatorVariantsResolveAlike ==
    /\ (InPage /\ text \in {<<"U", "n", "i", "v", "e", "r", "s", "i", "t", "y", " ", "S", "e", "a", "t", " ", "N", "u", "m", "b", "e", "r", ":", "A", "B", "C", "1", "2", "3", "D", "E">>,
                           <<"U", "n", "i", "v", "e", "r", "s", "i", "t", "y", " ", "S", "e", "a", "t", " ", "N", "u", "m", "b", "e", "r", " ", "-", " ", "A", "B", "C", "1", "2", "3", "D", "E">>})
          => usn = S_ABC123DE
    /\ ResolvesValueAfter(USN_LABEL)

\* C8 witness: a page whose text is "University Seat Number - ABC123DE" resolved to
\* "ABC123DE".
C8_Witness ==
    /\ InPage
    /\ text = <<"U", "n", "i", "v", "e", "r", "s", "i", "t", "y", " ", "S", "e", "a", "t", " ", "N", "u", "m", "b", "e", "r", " ", "-", " ", "A", "B", "C", "1", "2", "3", "D", "E">>
    /\ usn = S_ABC123DE

\* C9: at every step the dataset before the step is a prefix of the dataset after it.
C9_AppendOnly == [][IsPrefix(all_results, all_results')]_vars

\* C9 witness: the batch is done, the dataset holds a record, and a later document
\* failed.
C9_Witness ==
    /\ pc = "done"
    /\ \E i \in 1..Len(all_results) : \E d \in failed : RowOf(i).doc < d

\* C10: for every qualifying row the record's subjectCode, subjectName, totalMark and
\* result are the normalized cells 0, 1, 4 and 5, repaired or not, so that no cell from
\* index 6 on has a part in them; and the row the loop is bound to is the row the
\* decoder yielded.
C10_PositionalFields ==
    /\ \A i \in 1..Len(extracted_data) :
          LET cells == rows_seen[ed_origin[i]].cells
          IN  /\ Len(cells) >= 6
              /\ extracted_data[i].SubjectCode = Normalized(cells[1])
              /\ extracted_data[i].SubjectName = Normalized(cells[2])
              /\ extracted_data[i].Total = Normalized(cells[5])
              /\ extracted_data[i].Result = Normalized(cells[6])
    /\ (pc = "for_row" /\ row_no > 0) => row = rows_seen[Len(rows_seen)].cells

\* C10 witness: a record of a row with more than six cells, whose marks were repaired
\* and whose cells needed the normalization.
C10_Witness ==
    \E i \in 1..Len(extracted_data) :
        LET cells == rows_seen[ed_origin[i]].cells
        IN  /\ Len(cells) > 6
            /\ extracted_data[i].Internal # Normalized(cells[3])
            /\ extracted_data[i].SubjectName # cells[2].s
            /\ extracted_data[i].Total # cells[5].s

====
